---- MODULE Spec2Model ----
(***************************************************************************)
(* A model of the interval geometry and validation logic of the TimeRange  *)
(* component (src/src/index.tsx): getTimelineConfig,                       *)
(* getFormattedBlockedIntervals, getNowConfig,                             *)
(* TimeRange.checkIsSelectedIntervalNotValid, TimeRange.onUpdate and the   *)
(* part of TimeRange.render that reads this.disabledIntervals and this.now.*)
(*                                                                         *)
(* A Date is modelled by its millisecond epoch value, an integer.          *)
(* A percent is the IEEE double (diff / length) * 100.  It is modelled as  *)
(* a record: kind "finite" with the exact fraction num/den (den > 0), or   *)
(* kind "NaN", "Infinity", "-Infinity" for a division by a zero length.    *)
(* Rounding is monotone and 0, 1 and 100 are doubles, so a finite percent  *)
(* lies in [0,100] exactly when its exact fraction does.                   *)
(***************************************************************************)
EXTENDS Integers, Sequences, FiniteSets, TLC

VARIABLES
    timelineInterval,    \* props.timelineInterval: <<startTime, endTime>>
    disabledIntervals,   \* props.disabledIntervals: sequence of [start, end]
    hasUpdateCallback,   \* whether props.onUpdateCallback is supplied
    formatted,           \* render's const disabledIntervals (this.disabledIntervals)
    emitted,             \* the last data handed to props.onUpdateCallback
    clock,               \* the wall clock read by new Date()
    nowpc,               \* position of render inside its three reads of this.now
    nowSource,           \* source computed by the getNowConfig call in progress
    nowMarker,           \* what the last getNowConfig call returned
    nowTrack,            \* the key/source/target props handed to the now <Track>
    checkArgs,           \* arguments of a checkIsSelectedIntervalNotValid call
    checkResult          \* what that call returned

vars == <<timelineInterval, disabledIntervals, hasUpdateCallback, formatted,
          emitted, clock, nowpc, nowSource, nowMarker, nowTrack, checkArgs,
          checkResult>>

(***************************************************************************)
(* Bounds of the model.                                                    *)
(***************************************************************************)
MaxTime == 3
MaxBlocked == 2
MaxClock == 2

Times == 0..MaxTime

\* addMinutes(date, 1) adds 60000 milliseconds
MillisecondsInMinute == 60000

(***************************************************************************)
(* date-fns helpers, on millisecond values.                                *)
(***************************************************************************)
differenceInMilliseconds(dateLeft, dateRight) == dateLeft - dateRight

isBefore(date, dateToCompare) == date < dateToCompare

isAfter(date, dateToCompare) == date > dateToCompare

addMinutes(date, amount) == date + amount * MillisecondsInMinute

(***************************************************************************)
(* Number(format(date, "T")): format writes the millisecond timestamp as   *)
(* a decimal string (a sign, then the digits of the absolute value), and   *)
(* Number parses that string.                                              *)
(***************************************************************************)
DigitChars == <<"0", "1", "2", "3", "4", "5", "6", "7", "8", "9">>

RECURSIVE DecimalDigits(_)
DecimalDigits(n) ==
    IF n < 10 THEN <<DigitChars[n + 1]>>
    ELSE Append(DecimalDigits(n \div 10), DigitChars[(n % 10) + 1])

formatT(date) ==
    IF date < 0 THEN <<"-">> \o DecimalDigits(0 - date) ELSE DecimalDigits(date)

DigitValue(c) == CHOOSE d \in 0..9 : DigitChars[d + 1] = c

RECURSIVE ParseDigits(_, _)
ParseDigits(chars, acc) ==
    IF chars = <<>> THEN acc
    ELSE ParseDigits(Tail(chars), acc * 10 + DigitValue(Head(chars)))

Number(chars) ==
    IF chars # <<>> /\ Head(chars) = "-" THEN 0 - ParseDigits(Tail(chars), 0)
    ELSE ParseDigits(chars, 0)

(***************************************************************************)
(* (differenceInMilliseconds(date, timelineStart) / timelineLength) * 100  *)
(***************************************************************************)
Percent(diff, timelineLength) ==
    IF timelineLength = 0
    THEN [kind |-> IF diff = 0 THEN "NaN"
                   ELSE IF diff > 0 THEN "Infinity" ELSE "-Infinity",
          num |-> 0, den |-> 0]
    ELSE IF timelineLength > 0
    THEN [kind |-> "finite", num |-> diff * 100, den |-> timelineLength]
    ELSE [kind |-> "finite", num |-> (0 - diff) * 100, den |-> 0 - timelineLength]

getTimelineConfig(timelineStart, timelineLength, date, idPrefix) ==
    LET percent == Percent(differenceInMilliseconds(date, timelineStart),
                           timelineLength)
        value == Number(formatT(date))
        id == idPrefix \o "-" \o ToString(value)
    IN  [id |-> id, percent |-> percent, value |-> value]

(***************************************************************************)
(* getFormattedBlockedIntervals: null for an empty list, else one mapped   *)
(* interval per blocked interval, in order.                                *)
(***************************************************************************)
\* A slip in the clamp: a start before the window is moved to the window's end.
FormatBlockedIntervalWrongClamp(interval, index, startTime, endTime) ==
    LET timelineLength == differenceInMilliseconds(endTime, startTime)
        start == IF isBefore(interval.start, startTime) THEN endTime
                 ELSE interval.start
        end == IF isAfter(interval.end, endTime) THEN endTime
               ELSE interval.end
        source == getTimelineConfig(startTime, timelineLength, start, "blocked-start")
        target == getTimelineConfig(startTime, timelineLength, end, "blocked-end")
    IN  [id |-> "blocked-track-" \o ToString(index),
         source |-> source, target |-> target]

FormatBlockedInterval(interval, index, startTime, endTime) ==
    LET timelineLength == differenceInMilliseconds(endTime, startTime)
        start == IF isBefore(interval.start, startTime) THEN startTime
                 ELSE interval.start
        end == IF isAfter(interval.end, endTime) THEN endTime
               ELSE interval.end
        source == getTimelineConfig(startTime, timelineLength, start, "blocked-start")
        target == getTimelineConfig(startTime, timelineLength, end, "blocked-end")
    IN  [id |-> "blocked-track-" \o ToString(index),
         source |-> source, target |-> target]

getFormattedBlockedIntervals(blockedDates, interval) ==
    IF Len(blockedDates) = 0 THEN [isNull |-> TRUE, list |-> <<>>]
    ELSE [isNull |-> FALSE,
          list |-> [i \in 1..Len(blockedDates) |->
                      FormatBlockedInterval(blockedDates[i], i - 1,
                                            interval[1], interval[2])]]

(***************************************************************************)
(* TimeRange.checkIsSelectedIntervalNotValid                               *)
(***************************************************************************)
\* A slip in the second branch: containment compared strictly.
checkStrictContainment(selected, source, target) ==
    LET start == selected[1]
        end == selected[2]
        startInterval == source.value
        endInterval == target.value
    IN  IF \/ (startInterval > start /\ endInterval <= end)
           \/ (startInterval >= start /\ endInterval < end)
        THEN TRUE
        ELSE IF start > startInterval /\ end < endInterval
        THEN TRUE
        ELSE LET isStartInBlockedInterval ==
                     start > startInterval /\ start < endInterval
                         /\ end >= endInterval
                 isEndInBlockedInterval ==
                     end < endInterval /\ end > startInterval
                         /\ start <= startInterval
             IN  isStartInBlockedInterval \/ isEndInBlockedInterval

\* A slip in the third branch: the test that the start lies before the
\* blocked end is lost.
checkStartNotBounded(selected, source, target) ==
    LET start == selected[1]
        end == selected[2]
        startInterval == source.value
        endInterval == target.value
    IN  IF \/ (startInterval > start /\ endInterval <= end)
           \/ (startInterval >= start /\ endInterval < end)
        THEN TRUE
        ELSE IF start >= startInterval /\ end <= endInterval
        THEN TRUE
        ELSE LET isStartInBlockedInterval ==
                     start > startInterval /\ end >= endInterval
                 isEndInBlockedInterval ==
                     end < endInterval /\ end > startInterval
                         /\ start <= startInterval
             IN  isStartInBlockedInterval \/ isEndInBlockedInterval

checkIsSelectedIntervalNotValid(selected, source, target) ==
    LET start == selected[1]
        end == selected[2]
        startInterval == source.value
        endInterval == target.value
    IN  IF \/ (startInterval > start /\ endInterval <= end)
           \/ (startInterval >= start /\ endInterval < end)
        THEN TRUE
        ELSE IF start >= startInterval /\ end <= endInterval
        THEN TRUE
        ELSE LET isStartInBlockedInterval ==
                     start > startInterval /\ start < endInterval
                         /\ end >= endInterval
                 isEndInBlockedInterval ==
                     end < endInterval /\ end > startInterval
                         /\ start <= startInterval
             IN  isStartInBlockedInterval \/ isEndInBlockedInterval

(***************************************************************************)
(* Array.prototype.some over the mapped intervals, as onUpdate calls it:   *)
(* left to right, stopping at the first interval the check rejects.        *)
(***************************************************************************)
RECURSIVE SomeFrom(_, _, _)
SomeFrom(list, i, newTime) ==
    IF i > Len(list) THEN FALSE
    ELSE IF checkIsSelectedIntervalNotValid(<<newTime[1], newTime[2]>>,
                                            list[i].source, list[i].target)
    THEN TRUE
    ELSE SomeFrom(list, i + 1, newTime)

\* A slip in the iteration: only the first mapped interval is checked.
someNotValidFirstOnly(list, newTime) ==
    checkIsSelectedIntervalNotValid(<<newTime[1], newTime[2]>>,
                                    list[1].source, list[1].target)

someNotValid(list, newTime) == SomeFrom(list, 1, newTime)

(***************************************************************************)
(* The data TimeRange.onUpdate hands to onUpdateCallback.                  *)
(***************************************************************************)
UpdateCallbackData(newTime) ==
    LET mapped == getFormattedBlockedIntervals(disabledIntervals, timelineInterval)
    IN  IF ~mapped.isNull /\ Len(mapped.list) # 0
        THEN [delivered |-> TRUE,
              error |-> someNotValid(mapped.list, newTime),
              time |-> newTime]
        ELSE [delivered |-> TRUE, error |-> FALSE, time |-> newTime]

NothingEmitted == [delivered |-> FALSE, error |-> FALSE, time |-> <<0, 0>>]

NotFormatted ==
    [rendered |-> FALSE, outcome |-> "none",
     value |-> [isNull |-> TRUE, list |-> <<>>]]

NoPoint == [id |-> "", percent |-> Percent(0, 1), value |-> 0]

NoMarker == [returned |-> FALSE, id |-> "", source |-> NoPoint, target |-> NoPoint]

NoTrack == [key |-> "", source |-> NoPoint, target |-> NoPoint]

NotCalled == [called |-> FALSE, value |-> FALSE]

(***************************************************************************)
(* The inputs.                                                             *)
(***************************************************************************)
Intervals == {iv \in [start : Times, end : Times] : iv.start <= iv.end}

RECURSIVE SeqsUpTo(_, _)
SeqsUpTo(S, n) ==
    IF n = 0 THEN {<<>>}
    ELSE LET shorter == SeqsUpTo(S, n - 1)
         IN  shorter \cup {Append(s, x) : s \in {t \in shorter : Len(t) = n - 1},
                                          x \in S}

BlockedLists == SeqsUpTo(Intervals, MaxBlocked)

NoRender == formatted = NotFormatted

NoUpdate == emitted = NothingEmitted

NowIdle ==
    /\ nowpc = [read |-> 0, step |-> "idle"]
    /\ nowSource = NoPoint
    /\ nowMarker = NoMarker
    /\ nowTrack = NoTrack

NoCheck ==
    /\ checkArgs = <<0, 0, 0, 0>>
    /\ checkResult = NotCalled

(***************************************************************************)
(* Spec: the component receiving update events from the slider.            *)
(***************************************************************************)
\* The timeline interval is the slider's domain: start before end.
Init ==
    /\ timelineInterval \in {w \in Times \X Times : w[1] < w[2]}
    /\ disabledIntervals \in BlockedLists
    /\ hasUpdateCallback \in BOOLEAN
    /\ clock = 0
    /\ NoRender /\ NoUpdate /\ NowIdle /\ NoCheck

\* The slider delivers its events serially: one update at a time, and the
\* callback has returned before the next one arrives.
OnUpdate(newTime) ==
    /\ ~emitted.delivered
    /\ emitted' = IF ~hasUpdateCallback THEN emitted
                  ELSE UpdateCallbackData(newTime)
    /\ UNCHANGED <<timelineInterval, disabledIntervals, hasUpdateCallback,
                   formatted, clock, nowpc, nowSource, nowMarker, nowTrack,
                   checkArgs, checkResult>>

\* onUpdateCallback returns; the component keeps nothing of the event.
CallbackReturns ==
    /\ emitted.delivered
    /\ emitted' = NothingEmitted
    /\ UNCHANGED <<timelineInterval, disabledIntervals, hasUpdateCallback,
                   formatted, clock, nowpc, nowSource, nowMarker, nowTrack,
                   checkArgs, checkResult>>

Next ==
    \/ \E newTime \in Times \X Times : OnUpdate(newTime)
    \/ CallbackReturns

Spec == Init /\ [][Next]_vars

(***************************************************************************)
(* SpecClip: render reading this.disabledIntervals, for every timeline     *)
(* interval the props can carry (the code does not check its order).       *)
(***************************************************************************)
InitClip ==
    /\ timelineInterval \in Times \X Times
    /\ disabledIntervals \in BlockedLists
    /\ hasUpdateCallback \in BOOLEAN
    /\ clock = 0
    /\ NoRender /\ NoUpdate /\ NowIdle /\ NoCheck

\* Nothing in getFormattedBlockedIntervals or getTimelineConfig throws on
\* these inputs: the call always returns.
RenderDisabledIntervals ==
    /\ formatted' =
           [rendered |-> TRUE, outcome |-> "returned",
            value |-> getFormattedBlockedIntervals(disabledIntervals,
                                                   timelineInterval)]
    /\ UNCHANGED <<timelineInterval, disabledIntervals, hasUpdateCallback,
                   emitted, clock, nowpc, nowSource, nowMarker, nowTrack,
                   checkArgs, checkResult>>

NextClip == RenderDisabledIntervals

SpecClip == InitClip /\ [][NextClip]_vars

(***************************************************************************)
(* SpecNow: render reading this.now for the key, the source and the target *)
(* of the now <Track>.  Each read runs getNowConfig, which calls           *)
(* new Date() twice; the wall clock may advance between any two steps.     *)
(***************************************************************************)
InitNow ==
    /\ timelineInterval \in {w \in Times \X Times : w[1] < w[2]}
    /\ disabledIntervals = <<>>
    /\ hasUpdateCallback = TRUE
    /\ clock \in 0..MaxClock
    /\ NoRender /\ NoUpdate /\ NowIdle /\ NoCheck

NowReads == <<"key", "source", "target">>

\* render reaches {showNow && ...} and starts its first read of this.now
RenderNowTrack ==
    /\ nowpc.step = "idle"
    /\ nowpc' = [read |-> 1, step |-> "source"]
    /\ nowSource' = NoPoint
    /\ nowMarker' = NoMarker
    /\ nowTrack' = NoTrack
    /\ UNCHANGED <<timelineInterval, disabledIntervals, hasUpdateCallback,
                   formatted, emitted, clock, checkArgs, checkResult>>

\* const source = getConfig(new Date(), "now-start")
NowConfigSource ==
    /\ nowpc.step = "source"
    /\ LET startTime == timelineInterval[1]
           timelineLength == differenceInMilliseconds(timelineInterval[2],
                                                      startTime)
       IN  nowSource' = getTimelineConfig(startTime, timelineLength, clock,
                                          "now-start")
    /\ nowpc' = [nowpc EXCEPT !.step = "target"]
    /\ UNCHANGED <<timelineInterval, disabledIntervals, hasUpdateCallback,
                   formatted, emitted, clock, nowMarker, nowTrack, checkArgs,
                   checkResult>>

\* const target = getConfig(addMinutes(new Date(), 1), "now-end"); the call
\* returns and render takes the field it was reading.
NowConfigTarget ==
    /\ nowpc.step = "target"
    /\ LET startTime == timelineInterval[1]
           timelineLength == differenceInMilliseconds(timelineInterval[2],
                                                      startTime)
           target == getTimelineConfig(startTime, timelineLength,
                                       addMinutes(clock, 1), "now-end")
           now == [returned |-> TRUE, id |-> "now-track",
                   source |-> nowSource, target |-> target]
       IN  /\ nowMarker' = now
           /\ nowTrack' =
                  IF NowReads[nowpc.read] = "key"
                  THEN [nowTrack EXCEPT !.key = now.id]
                  ELSE IF NowReads[nowpc.read] = "source"
                  THEN [nowTrack EXCEPT !.source = now.source]
                  ELSE [nowTrack EXCEPT !.target = now.target]
    /\ nowpc' = IF nowpc.read = Len(NowReads)
                THEN [read |-> nowpc.read, step |-> "done"]
                ELSE [read |-> nowpc.read + 1, step |-> "source"]
    /\ UNCHANGED <<timelineInterval, disabledIntervals, hasUpdateCallback,
                   formatted, emitted, clock, nowSource, checkArgs,
                   checkResult>>

\* the wall clock advances by a millisecond
Tick ==
    /\ clock < MaxClock
    /\ clock' = clock + 1
    /\ UNCHANGED <<timelineInterval, disabledIntervals, hasUpdateCallback,
                   formatted, emitted, nowpc, nowSource, nowMarker, nowTrack,
                   checkArgs, checkResult>>

NextNow ==
    \/ RenderNowTrack
    \/ NowConfigSource
    \/ NowConfigTarget
    \/ Tick

SpecNow == InitNow /\ [][NextNow]_vars

(***************************************************************************)
(* SpecValidator: checkIsSelectedIntervalNotValid applied to every         *)
(* selection and every blocked source/target value of the time range.      *)
(***************************************************************************)
InitValidator ==
    /\ timelineInterval = <<0, MaxTime>>
    /\ disabledIntervals = <<>>
    /\ hasUpdateCallback = TRUE
    /\ clock = 0
    /\ NoRender /\ NoUpdate /\ NowIdle
    /\ checkArgs \in Times \X Times \X Times \X Times
    /\ checkResult = NotCalled

Validate ==
    /\ ~checkResult.called
    /\ checkResult' =
           [called |-> TRUE,
            value |-> checkIsSelectedIntervalNotValid(
                          <<checkArgs[1], checkArgs[2]>>,
                          [value |-> checkArgs[3]], [value |-> checkArgs[4]])]
    /\ UNCHANGED <<timelineInterval, disabledIntervals, hasUpdateCallback,
                   formatted, emitted, clock, nowpc, nowSource, nowMarker,
                   nowTrack, checkArgs>>

NextValidator == Validate

SpecValidator == InitValidator /\ [][NextValidator]_vars


(***************************************************************************)
(* The properties.                                                         *)
(***************************************************************************)
Max(a, b) == IF a >= b THEN a ELSE b

Min(a, b) == IF a <= b THEN a ELSE b

PercentInRange(p) == p.kind = "finite" /\ 0 <= p.num /\ p.num <= 100 * p.den

PercentEquals(p, n) == p.kind = "finite" /\ p.num = n * p.den

startTime == timelineInterval[1]

endTime == timelineInterval[2]

MappedNow == getFormattedBlockedIntervals(disabledIntervals, timelineInterval)

FullyOutside(interval) == interval.end < startTime \/ interval.start > endTime

FullyInside(interval) == startTime <= interval.start /\ interval.end <= endTime

\* C1: every update event delivered to onUpdateCallback carries an error flag
\* equal to the OR, over all blocked intervals clipped to the timeline window,
\* of checkIsSelectedIntervalNotValid(selection, source, target); with an
\* empty blocked list the flag is false.
C1_ErrorIsOrOverAllClipped ==
    emitted.delivered =>
        LET clipped == MappedNow.list
        IN  /\ emitted.error =
                   (\E i \in 1..Len(clipped) :
                        checkIsSelectedIntervalNotValid(emitted.time,
                            clipped[i].source, clipped[i].target))
            /\ (Len(disabledIntervals) = 0 => emitted.error = FALSE)

\* an update whose error comes from the second blocked interval, not the first
C1_Witness ==
    /\ emitted.delivered
    /\ emitted.error
    /\ Len(disabledIntervals) = 2
    /\ ~checkIsSelectedIntervalNotValid(emitted.time, MappedNow.list[1].source,
                                        MappedNow.list[1].target)

\* C2: a selection [S1,S2] contained in a blocked interval [B1,B2], that is
\* B1 <= S1 <= S2 <= B2 with any of them equal, is reported not valid.
C2_ContainmentIsInvalid ==
    (/\ checkResult.called
     /\ checkArgs[3] <= checkArgs[1]
     /\ checkArgs[1] <= checkArgs[2]
     /\ checkArgs[2] <= checkArgs[4]) => checkResult.value = TRUE

\* the all-equal boundary case S1 = S2 = B1 = B2
C2_Witness ==
    /\ checkResult.called
    /\ checkResult.value
    /\ checkArgs[1] = checkArgs[2]
    /\ checkArgs[3] = checkArgs[4]
    /\ checkArgs[1] = checkArgs[3]

\* C3: an ordered selection and an ordered blocked interval that share no
\* point (the selection ends before the blocked start, or starts after the
\* blocked end) are reported valid.
C3_DisjointIsValid ==
    (/\ checkResult.called
     /\ checkArgs[1] <= checkArgs[2]
     /\ checkArgs[3] <= checkArgs[4]
     /\ (checkArgs[2] < checkArgs[3] \/ checkArgs[1] > checkArgs[4]))
        => checkResult.value = FALSE

\* a selection lying after a blocked interval of positive width
C3_Witness ==
    /\ checkResult.called
    /\ ~checkResult.value
    /\ checkArgs[3] < checkArgs[4]
    /\ checkArgs[4] < checkArgs[1]
    /\ checkArgs[1] < checkArgs[2]

\* C4: for a window with start < end and blocked intervals with start <= end,
\* both mapped percents of every clipped interval lie in [0,100], and an
\* interval fully outside the window has source and target at the same
\* boundary, percent 0 or percent 100.
C4_ClipPercentsBounded ==
    (formatted.rendered /\ startTime < endTime) =>
        \A i \in 1..Len(formatted.value.list) :
            LET m == formatted.value.list[i]
            IN  /\ PercentInRange(m.source.percent)
                /\ PercentInRange(m.target.percent)
                /\ FullyOutside(disabledIntervals[i]) =>
                       /\ m.source.value = m.target.value
                       /\ \/ (PercentEquals(m.source.percent, 0)
                                /\ PercentEquals(m.target.percent, 0))
                          \/ (PercentEquals(m.source.percent, 100)
                                /\ PercentEquals(m.target.percent, 100))

\* C5: for a window with start < end and blocked intervals with start <= end,
\* every mapped interval has source.value <= target.value.
C5_MappedIntervalOrdered ==
    (formatted.rendered /\ startTime < endTime) =>
        \A i \in 1..Len(formatted.value.list) :
            disabledIntervals[i].start <= disabledIntervals[i].end =>
                formatted.value.list[i].source.value
                    <= formatted.value.list[i].target.value

\* C6: with a timeline window of length end - start <= 0 the geometry
\* computation ends in a DegenerateWindowError, not in mapped intervals.
C6_DegenerateWindowIsError ==
    (/\ formatted.rendered
     /\ Len(disabledIntervals) > 0
     /\ differenceInMilliseconds(endTime, startTime) <= 0)
        => formatted.outcome = "DegenerateWindowError"

\* C7: a now marker is exactly one minute wide, target.value = source.value
\* + 60000, whatever the clock does meanwhile, and the source and target
\* handed to the now track in one render are one minute apart as well.
C7_NowMarkerOneMinuteWide ==
    /\ nowMarker.returned =>
           nowMarker.target.value = nowMarker.source.value + MillisecondsInMinute
    /\ nowpc.step = "done" =>
           nowTrack.target.value = nowTrack.source.value + MillisecondsInMinute

\* C8: for a non-empty blocked list and a window with start < end the result
\* has the length of the input, and its i-th element (0-based) has id
\* "blocked-track-" + i, source.value = max(start, window start) and
\* target.value = min(end, window end); an interval inside the window keeps
\* its values.
C8_ClipIsPointwiseMaxMin ==
    (/\ formatted.rendered
     /\ startTime < endTime
     /\ Len(disabledIntervals) > 0) =>
        /\ ~formatted.value.isNull
        /\ Len(formatted.value.list) = Len(disabledIntervals)
        /\ \A i \in 1..Len(disabledIntervals) :
               LET m == formatted.value.list[i]
                   b == disabledIntervals[i]
               IN  /\ m.id = "blocked-track-" \o ToString(i - 1)
                   /\ m.source.value = Max(b.start, startTime)
                   /\ m.target.value = Min(b.end, endTime)
                   /\ FullyInside(b) =>
                          (m.source.value = b.start /\ m.target.value = b.end)

\* two blocked intervals, the first cut at the window start and the second
\* cut at the window end
C8_Witness ==
    /\ formatted.rendered
    /\ startTime < endTime
    /\ Len(disabledIntervals) = 2
    /\ disabledIntervals[1].start < startTime
    /\ disabledIntervals[1].end > startTime
    /\ disabledIntervals[2].end > endTime
    /\ disabledIntervals[2].start < endTime
    /\ formatted.value.list[1].source.value = startTime
    /\ formatted.value.list[2].target.value = endTime

\* C9: for a selection with start < end and a blocked interval with
\* blockedStart < blockedEnd, the check returns true exactly when the two
\* open intervals overlap: start < blockedEnd and blockedStart < end.
C9_OpenIntervalOverlap ==
    (/\ checkResult.called
     /\ checkArgs[1] < checkArgs[2]
     /\ checkArgs[3] < checkArgs[4])
        => checkResult.value =
               (checkArgs[1] < checkArgs[4] /\ checkArgs[3] < checkArgs[2])

\* a selection that touches the blocked interval at its end point only
C9_Witness ==
    /\ checkResult.called
    /\ ~checkResult.value
    /\ checkArgs[1] < checkArgs[2]
    /\ checkArgs[2] = checkArgs[3]
    /\ checkArgs[3] < checkArgs[4]

\* C10: when every blocked interval lies entirely outside the timeline
\* window, an update whose selection lies within the window reports
\* error = false.
C10_OutsideBlockedNeverInvalid ==
    (/\ emitted.delivered
     /\ startTime <= emitted.time[1]
     /\ emitted.time[1] <= emitted.time[2]
     /\ emitted.time[2] <= endTime
     /\ \A i \in 1..Len(disabledIntervals) : FullyOutside(disabledIntervals[i]))
        => emitted.error = FALSE

====
